---- MODULE Spec2Model ----
(***************************************************************************)
(* Model of src/Var.py: class VaRCalculator.                               *)
(*                                                                         *)
(* Numbers.  The program computes in binary floating point.  The model     *)
(* computes in fixed point and says which unit every quantity is in:       *)
(*   - a price is a positive integer;                                      *)
(*   - a return is an integer count of 1/RetScale, rounded to nearest      *)
(*     (the analogue of the float rounding of the division);               *)
(*   - a confidence level is an integer count of 1/QDen (0.05 is 5 * LevelRes);      *)
(*   - a percentile of a series is in units of 1/QDen of the series' unit, *)
(*     so the linear interpolation is exact;                               *)
(*   - a float is a record [nan, v]: NaN, or the number v.                 *)
(* Random draws are nondeterministic choices from ZSet.                    *)
(***************************************************************************)
EXTENDS Integers, Sequences, FiniteSets, TLC

VARIABLES
    asset,      \* the prices yf.download returned to the constructor
    phase,      \* "new": before VaRCalculator(...); "ready": the constructor
                \* returned the instance; "failed": the constructor raised
    ctorErr,    \* where the constructor raised: "none", "download", "returns"
    self,       \* the instance's attributes (a function from attribute name)
    drawn,      \* samples drawn from np.random's global stream so far
    last,       \* the last public call and what it gave back to the caller
    firstHist,  \* the first var_historical outcome observed (level, outcome)
    built       \* the instance as the constructor returned it

vars == <<asset, phase, ctorErr, self, drawn, last, firstHist, built>>

-----------------------------------------------------------------------------
(* Bounds of the model *)

MaxLen == 3         \* the price source returns at most MaxLen prices
MaxLevels == 2      \* get_var_summary gets at most MaxLevels levels (or its default)
MaxDrawn == 1       \* a sampling method is called only while drawn < MaxDrawn
RetScale == 1000    \* resolution of a return: 1/RetScale
LevelRes == 10      \* resolution of a confidence level: 1/(Percent * LevelRes)

(* Program constants *)

Percent == 100          \* q = confidence_level * 100
ParamSamples == 100000  \* np.random.normal(0, 1, 100000)
DefaultSims == 10000    \* simulations=10000

\* a level m stands for the confidence level m / QDen
QDen == Percent * LevelRes

-----------------------------------------------------------------------------
(* Floats *)

NaN == [nan |-> TRUE, v |-> 0]

Num(x) == [nan |-> FALSE, v |-> x]

IsNum(f) == ~f.nan

FAdd(a, b) == IF a.nan \/ b.nan THEN NaN ELSE Num(a.v + b.v)

FSub(a, b) == IF a.nan \/ b.nan THEN NaN ELSE Num(a.v - b.v)

FMul(a, b) == IF a.nan \/ b.nan THEN NaN ELSE Num(a.v * b.v)

\* abs(): abs(NaN) is NaN
FAbs(a) == IF a.nan THEN NaN ELSE Num(IF a.v < 0 THEN -a.v ELSE a.v)

\* a >= 0 on floats: every comparison with NaN is False
FGeZero(a) == ~a.nan /\ a.v >= 0

\* a / b rounded to the nearest unit, b > 0
RoundDiv(a, b) == (2 * a + b) \div (2 * b)

\* F(v), with v evaluated once
Bind(v, F(_)) == CHOOSE y \in {F(x) : x \in {v}} : TRUE

RECURSIVE SqrtSearch(_, _, _)
SqrtSearch(x, lo, hi) ==
    IF lo >= hi THEN lo
    ELSE LET mid == (lo + hi + 1) \div 2
         IN  IF mid * mid <= x THEN SqrtSearch(x, mid, hi)
             ELSE SqrtSearch(x, lo, mid - 1)

\* floor of the square root of x >= 0
ISqrt(x) == SqrtSearch(x, 0, IF x < 1024 * 1024 THEN 1024 ELSE 46340)

RECURSIVE SumSeq(_)
SumSeq(s) == IF s = <<>> THEN 0 ELSE Head(s) + SumSeq(Tail(s))

RECURSIVE SumSq(_)
SumSq(s) == IF s = <<>> THEN 0 ELSE Head(s) * Head(s) + SumSq(Tail(s))

RECURSIVE Insert(_, _)
Insert(x, s) ==
    IF s = <<>> THEN <<x>>
    ELSE IF x <= Head(s) THEN <<x>> \o s
    ELSE <<Head(s)>> \o Insert(x, Tail(s))

RECURSIVE Sort(_)
Sort(s) == IF s = <<>> THEN <<>> ELSE Insert(Head(s), Sort(Tail(s)))

-----------------------------------------------------------------------------
(* pandas / numpy *)

\* Series.mean(): NaN on an empty series
Mean(r) == IF r = <<>> THEN NaN ELSE Num(RoundDiv(SumSeq(r), Len(r)))

\* Series.std(): the unbiased estimator (ddof = 1), NaN when fewer than two
\* values.  sum((x - mean)^2) / (n - 1) = (n * sum(x^2) - sum(x)^2) / (n * (n - 1))
Std(r) ==
    LET n == Len(r)
    IN  IF n < 2 THEN NaN
        ELSE Num(ISqrt((n * SumSq(r) - SumSeq(r) * SumSeq(r)) \div (n * (n - 1))))

\* np.percentile's range check on q = m / LevelRes: 0 <= q <= 100
QValid(m) == 0 <= m /\ m <= QDen

\* A faulty percentile, which C4 must reject: the 'lower' method, the value at
\* the floor of the position with no interpolation
PercentileLower(a, m) ==
    LET lo == (m * (Len(a) - 1)) \div QDen
    IN  Bind(Sort(a), LAMBDA s : s[lo + 1] * QDen)

\* np.percentile(a, q), linear interpolation, for a non-empty sorted-able a and a
\* valid q: the value at position q/100 * (n - 1), in units of 1/QDen
Percentile(a, m) ==
    LET n == Len(a)
        pos == m * (n - 1)
        lo == pos \div QDen
        hi == IF lo + 1 < n THEN lo + 1 ELSE lo
    IN  Bind(Sort(a), LAMBDA s :
             s[lo + 1] * QDen + (pos % QDen) * (s[hi + 1] - s[lo + 1]))

\* np.percentile of a sample of n >= 1 random floats at a valid q, given the two
\* order statistics x <= y at the floor and the ceiling of the position
SamplePercentile(n, m, x, y) ==
    LET pos == m * (n - 1)
        top == (pos \div QDen) + 1 >= n
    IN  FAdd(FMul(x, Num(QDen)),
             FMul(Num(pos % QDen), FSub(IF top THEN x ELSE y, x)))

\* the draws: values a standard normal sample takes, and the pairs of
\* adjacent order statistics of a sample
ZSet == {-2, 1}

DrawPairs == {p \in ZSet \X ZSet : p[1] <= p[2]}

-----------------------------------------------------------------------------
(* VaRCalculator.__init__ *)

\* prices the source quotes
PriceSet == {2, 3}

\* what yf.download(...)['Adj Close'] can hold
PriceSeqs == UNION {[1..n -> PriceSet] : n \in 0..MaxLen}

\* A faulty pct_change, which C8 must reject: the ratio taken the wrong way
\* round, data[i-1] / data[i] - 1
PctChangeInverted(data) ==
    [i \in 1..Len(data) |->
        IF i = 1 THEN NaN
        ELSE Num(RoundDiv(data[i - 1] * RetScale, data[i]) - RetScale)]

\* Series.pct_change(): NaN first, then data[i] / data[i-1] - 1
PctChange(data) ==
    [i \in 1..Len(data) |->
        IF i = 1 THEN NaN
        ELSE Num(RoundDiv(data[i] * RetScale, data[i - 1]) - RetScale)]

\* Series.dropna(), the values that are left
DropNa(s) == LET keep == SelectSeq(s, IsNum) IN [i \in 1..Len(keep) |-> keep[i].v]

\* _calculate_returns, before its emptiness check
CalculateReturns(data) == DropNa(PctChange(data))

\* asset.empty
AssetEmpty(prices) == prices = <<>>

\* A faulty emptiness check, which C2 must reject: the check left out
ReturnsEmptyUnchecked(rets) == FALSE

\* returns.empty
ReturnsEmpty(rets) == rets = <<>>

NoSelf == [a \in {} |-> 0]

NoCall == [op |-> "none", cl |-> 0, sims |-> 0, levels |-> <<>>,
           out |-> "none", val |-> NaN, err |-> "none", rows |-> <<>>,
           stats |-> FALSE, samples |-> 0, calls |-> <<>>]

Init ==
    /\ asset = <<>>
    /\ phase = "new"
    /\ ctorErr = "none"
    /\ self = NoSelf
    /\ drawn = 0
    /\ last = NoCall
    /\ firstHist = <<>>
    /\ built = NoSelf

\* VaRCalculator(ticker, start_date, end_date), the price source returning prices
Construct(prices) ==
    /\ phase = "new"
    /\ asset' = prices
    /\ LET s0 == [ticker |-> "SPY", start_date |-> "s", end_date |-> "e"]
           s1 == s0 @@ ("data" :> prices)
           rets == CalculateReturns(prices)
       IN  IF AssetEmpty(prices)
           THEN \* _download_data raises
                /\ phase' = "failed"
                /\ ctorErr' = "download"
                /\ self' = s0
                /\ built' = NoSelf
           ELSE IF ReturnsEmpty(rets)
           THEN \* _calculate_returns raises
                /\ phase' = "failed"
                /\ ctorErr' = "returns"
                /\ self' = s1
                /\ built' = NoSelf
           ELSE /\ phase' = "ready"
                /\ ctorErr' = "none"
                /\ self' = s1 @@ ("returns" :> rets)
                /\ built' = self'
    /\ UNCHANGED <<drawn, last, firstHist>>

-----------------------------------------------------------------------------
(* The VaR methods.  Each gives an outcome:                                *)
(*   out      "value" (val is the float returned) or "error" (err raised), *)
(*   stats    the mean and the standard deviation were computed,           *)
(*   samples  random samples drawn.                                        *)

Value(f, st, n) ==
    [out |-> "value", val |-> f, err |-> "none", stats |-> st, samples |-> n]

Raise(e, st, n) ==
    [out |-> "error", val |-> NaN, err |-> e, stats |-> st, samples |-> n]

\* var_parametric(confidence_level): dp are the order statistics of the
\* standard normal sample around the percentile's position
VarParametric(r, m, dp) ==
    LET mean == Mean(r)
        std_dev == Std(r)
    IN  IF ~QValid(m) THEN Raise("percentile_range", TRUE, ParamSamples)
        ELSE LET z == SamplePercentile(ParamSamples, m, Num(dp[1]), Num(dp[2]))
                 var == FAdd(FMul(mean, Num(QDen)), FMul(std_dev, z))
             IN  Value(FAbs(var), TRUE, ParamSamples)

\* A faulty var_historical, which C5 must reject: the percentile perturbed by
\* the position of the random stream
VarHistoricalResampled(r, m) ==
    IF ~QValid(m) THEN Raise("percentile_range", FALSE, 0)
    ELSE Value(FAbs(Num(Percentile(r, m) + drawn)), FALSE, 0)

\* A faulty var_historical, which C10 must reject: abs() left out
VarHistoricalSigned(r, m) ==
    IF ~QValid(m) THEN Raise("percentile_range", FALSE, 0)
    ELSE Value(Num(Percentile(r, m)), FALSE, 0)

\* var_historical(confidence_level)
VarHistorical(r, m) ==
    IF ~QValid(m) THEN Raise("percentile_range", FALSE, 0)
    ELSE Value(FAbs(Num(Percentile(r, m))), FALSE, 0)

\* var_monte_carlo(confidence_level, simulations): dp as above, of the
\* simulated sample; emptyRaises is what np.percentile does with an empty
\* sample (IndexError, or NaN in older numpy)
VarMonteCarlo(r, m, simulations, dp, emptyRaises) ==
    IF simulations < 0 THEN Raise("negative_dimensions", TRUE, 0)
    ELSE IF ~QValid(m) THEN Raise("percentile_range", TRUE, simulations)
    ELSE IF simulations = 0
    THEN IF emptyRaises THEN Raise("index_error", TRUE, 0)
         ELSE Value(NaN, TRUE, 0)
    ELSE Bind(Mean(r), LAMBDA mean : Bind(Std(r), LAMBDA std_dev :
         LET x == FAdd(mean, FMul(std_dev, Num(dp[1])))
             y == FAdd(mean, FMul(std_dev, Num(dp[2])))
         IN  Value(FAbs(SamplePercentile(simulations, m, x, y)), TRUE,
                   simulations)))

\* int(cl * 100): truncation towards zero
Label(m) == IF m >= 0 THEN m \div LevelRes ELSE -((-m) \div LevelRes)

\* get_var_summary's loop from level i on; draws[i] = <<dp of var_parametric,
\* dp of var_monte_carlo>>.  rows, samples and calls are what the loop
\* has accumulated.
RECURSIVE SummaryLoop(_, _, _, _, _)
SummaryLoop(r, levels, draws, i, acc) ==
    IF i > Len(levels)
    THEN [out |-> "rows", val |-> NaN, err |-> "none", rows |-> acc.rows,
          stats |-> acc.stats, samples |-> acc.samples, calls |-> acc.calls]
    ELSE LET m == levels[i]
             three == <<<<"parametric", m>>, <<"historical", m>>,
                        <<"monte_carlo", m>>>>
             failed(e, made, n) ==
                 [out |-> "error", val |-> NaN, err |-> e, rows |-> <<>>,
                  stats |-> TRUE, samples |-> acc.samples + n,
                  calls |-> acc.calls \o SubSeq(three, 1, made)]
         IN  Bind(VarParametric(r, m, draws[i][1]), LAMBDA p :
             IF p.out = "error" THEN failed(p.err, 1, p.samples)
             ELSE Bind(VarHistorical(r, m), LAMBDA h :
             IF h.out = "error" THEN failed(h.err, 2, p.samples)
             ELSE Bind(VarMonteCarlo(r, m, DefaultSims, draws[i][2], FALSE),
                       LAMBDA mc :
             IF mc.out = "error" THEN failed(mc.err, 3, p.samples + mc.samples)
             ELSE Bind([rows |-> Append(acc.rows,
                                   [label |-> Label(m), parametric |-> p.val,
                                    historical |-> h.val,
                                    monte_carlo |-> mc.val]),
                        stats |-> TRUE,
                        samples |-> acc.samples + p.samples + mc.samples,
                        calls |-> acc.calls \o three],
                       LAMBDA next : SummaryLoop(r, levels, draws, i + 1, next)))))

RECURSIVE Distinct(_)
Distinct(s) ==
    IF s = <<>> THEN <<>>
    ELSE <<Head(s)>> \o Distinct(SelectSeq(Tail(s), LAMBDA x : x # Head(s)))

\* A faulty get_var_summary, which C3 must reject: one row per distinct level
GetVarSummaryDistinct(r, levels, draws) ==
    SummaryLoop(r, Distinct(levels), draws, 1,
                [rows |-> <<>>, stats |-> FALSE, samples |-> 0,
                 calls |-> <<>>])

\* A faulty get_var_summary, which C9 must reject: a level whose methods
\* raise is skipped and the other rows are returned
GetVarSummarySkipping(r, levels, draws) ==
    SummaryLoop(r, SelectSeq(levels, QValid), draws, 1,
                [rows |-> <<>>, stats |-> FALSE, samples |-> 0,
                 calls |-> <<>>])

\* get_var_summary(confidence_levels)
GetVarSummary(r, levels, draws) ==
    SummaryLoop(r, levels, draws, 1,
                [rows |-> <<>>, stats |-> FALSE, samples |-> 0,
                 calls |-> <<>>])

-----------------------------------------------------------------------------
(* The calls a client makes on a constructed instance *)

\* confidence levels a caller passes: 0, 0.01, 0.1, 1.01
LevelSet == {0, LevelRes, 10 * LevelRes, QDen + LevelRes}

\* simulations a caller passes
SimSet == {-1, 0, 2, DefaultSims}

\* confidence_levels=[0.01, 0.05, 0.1]
DefaultLevels == <<LevelRes, 5 * LevelRes, 10 * LevelRes>>

\* levels a caller lists for get_var_summary: 0.015 and 1.01
SummaryLevelSet == {LevelRes + LevelRes \div 2, QDen + LevelRes}

LevelLists ==
    {DefaultLevels} \cup UNION {[1..n -> SummaryLevelSet] : n \in 0..MaxLevels}

\* the order statistics enumerated for a sample of n draws whose percentile at
\* level m is asked: none is read of an empty sample or at a level out of
\* range, one of a sample of one
NoDraw == <<0, 0>>

DrawsOf(n, m) ==
    IF n < 1 \/ ~QValid(m) THEN {NoDraw}
    ELSE IF n = 1 THEN {p \in DrawPairs : p[1] = p[2]}
    ELSE DrawPairs

\* the draws enumerated for one level of a summary: both samples of the level
\* take the same order statistics, and none is read at a level out of range
SummaryDraws(m) ==
    IF QValid(m) THEN {<<p, p>> : p \in DrawPairs} ELSE {<<NoDraw, NoDraw>>}

\* the draws enumerated for a summary: the loop ends at the first level out
\* of range
RECURSIVE DrawLists(_)
DrawLists(levels) ==
    IF levels = <<>> THEN {<<>>}
    ELSE IF ~QValid(Head(levels))
    THEN {[i \in 1..Len(levels) |-> <<NoDraw, NoDraw>>]}
    ELSE {<<d>> \o rest : d \in SummaryDraws(Head(levels)),
                          rest \in DrawLists(Tail(levels))}

\* A faulty method, which C6 must reject: the returns sorted in place
SelfSortedInPlace(s) == [s EXCEPT !.returns = Sort(@)]

\* the attributes of the instance after a method ran: no method assigns one
SelfAfterCall(s) == s

\* the first var_historical outcome a caller sees, and how many samples had
\* been drawn by then
NoteHist(m, out, val, err) ==
    IF firstHist = <<>>
    THEN <<[cl |-> m, out |-> out, val |-> val, err |-> err, at |-> drawn]>>
    ELSE firstHist

Parametric(m, dp) ==
    /\ phase = "ready"
    /\ drawn < MaxDrawn
    /\ \E o \in {VarParametric(self.returns, m, dp)} :
           /\ last' = [op |-> "parametric", cl |-> m, sims |-> 0, levels |-> <<>>,
                       out |-> o.out, val |-> o.val, err |-> o.err, rows |-> <<>>,
                       stats |-> o.stats, samples |-> o.samples,
                       calls |-> <<<<"parametric", m>>>>]
           /\ drawn' = drawn + o.samples
    /\ self' = SelfAfterCall(self)
    /\ UNCHANGED <<asset, phase, ctorErr, firstHist, built>>

Historical(m) ==
    /\ phase = "ready"
    /\ \E o \in {VarHistorical(self.returns, m)} :
           /\ last' = [op |-> "historical", cl |-> m, sims |-> 0, levels |-> <<>>,
                       out |-> o.out, val |-> o.val, err |-> o.err, rows |-> <<>>,
                       stats |-> o.stats, samples |-> o.samples,
                       calls |-> <<<<"historical", m>>>>]
           /\ drawn' = drawn + o.samples
           /\ firstHist' = NoteHist(m, o.out, o.val, o.err)
    /\ self' = SelfAfterCall(self)
    /\ UNCHANGED <<asset, phase, ctorErr, built>>

MonteCarlo(m, simulations, dp, emptyRaises) ==
    /\ phase = "ready"
    /\ drawn < MaxDrawn
    /\ \E o \in {VarMonteCarlo(self.returns, m, simulations, dp, emptyRaises)} :
           /\ last' = [op |-> "monte_carlo", cl |-> m, sims |-> simulations,
                       levels |-> <<>>,
                       out |-> o.out, val |-> o.val, err |-> o.err, rows |-> <<>>,
                       stats |-> o.stats, samples |-> o.samples,
                       calls |-> <<<<"monte_carlo", m>>>>]
           /\ drawn' = drawn + o.samples
    /\ self' = SelfAfterCall(self)
    /\ UNCHANGED <<asset, phase, ctorErr, firstHist, built>>

Summary(levels, draws) ==
    /\ phase = "ready"
    /\ drawn < MaxDrawn
    /\ \E o \in {GetVarSummary(self.returns, levels, draws)} :
           /\ last' = [op |-> "summary", cl |-> 0, sims |-> 0, levels |-> levels,
                       out |-> o.out, val |-> o.val, err |-> o.err,
                       rows |-> o.rows, stats |-> o.stats, samples |-> o.samples,
                       calls |-> o.calls]
           /\ drawn' = drawn + o.samples
           /\ firstHist' =
                 IF o.out = "rows" /\ o.rows # <<>>
                 THEN NoteHist(levels[1], "value", o.rows[1].historical, "none")
                 ELSE firstHist
    /\ self' = SelfAfterCall(self)
    /\ UNCHANGED <<asset, phase, ctorErr, built>>

Calls ==
    \/ \E m \in LevelSet : \E dp \in DrawsOf(ParamSamples, m) : Parametric(m, dp)
    \/ \E m \in LevelSet : Historical(m)
    \/ \E m \in LevelSet, n \in SimSet :
          \E dp \in DrawsOf(n, m), e \in (IF n = 0 THEN BOOLEAN ELSE {FALSE}) :
             MonteCarlo(m, n, dp, e)
    \/ \E levels \in LevelLists :
          \E draws \in DrawLists(levels) : Summary(levels, draws)

Next ==
    \/ \E prices \in PriceSeqs : Construct(prices)
    \/ Calls

Spec == Init /\ [][Next]_vars

-----------------------------------------------------------------------------
(* The example series.  ExampleReturns are the returns 0.01, -0.02, 0.015,  *)
(* -0.005, 0.02, -0.01, 0.005, -0.03, 0.012, -0.008 in thousandths;         *)
(* ExamplePrices is a price series whose changes are those returns to the  *)
(* resolution of a return.                                                 *)

ExampleReturns == <<10, -20, 15, -5, 20, -10, 5, -30, 12, -8>>

ExamplePrices ==
    <<100000, 101000, 98980, 100465, 99963, 101962, 100942, 101447, 98404,
      99585, 98788>>

NextExample ==
    \/ Construct(ExamplePrices)
    \/ Calls

SpecExample == Init /\ [][NextExample]_vars

-----------------------------------------------------------------------------
(* Properties *)

Methods == {"parametric", "historical", "monte_carlo"}

Abs(x) == IF x < 0 THEN -x ELSE x

\* C1: for a non-empty return series and a level strictly between 0 and 1,
\* var_parametric, var_historical and var_monte_carlo (default simulations)
\* each return a value >= 0, whatever the draws.
C1_AllNonNegative ==
    (/\ phase = "ready"
     /\ last.op \in Methods
     /\ 0 < last.cl /\ last.cl < QDen
     /\ last.op = "monte_carlo" => last.sims = DefaultSims)
    => (last.out = "value" /\ FGeZero(last.val))

\* C2: no instance with an empty return series is ever constructed: no price
\* makes _download_data raise before any return is derived, one price makes
\* _calculate_returns raise, a failed construction hands no instance to the
\* caller, and a constructed instance has at least one return.
C2_NeverEmptyReturns ==
    phase # "new" =>
        /\ Len(asset) = 0 =>
              phase = "failed" /\ ctorErr = "download" /\ "data" \notin DOMAIN self
        /\ Len(asset) = 1 => phase = "failed" /\ ctorErr = "returns"
        /\ phase = "failed" => built = NoSelf /\ "returns" \notin DOMAIN self
        /\ phase = "ready" =>
              built = self /\ "returns" \in DOMAIN self /\ Len(self.returns) >= 1

C2_Witness == phase = "failed" /\ ctorErr = "returns" /\ Len(asset) = 1

\* C3: get_var_summary(levels) returns len(levels) rows, row i made of
\* levels[i] by the three methods in the order of the input, a level that
\* occurs k times giving k rows.
C3_RowPerLevel ==
    last.op = "summary" =>
        /\ (\A i \in 1..Len(last.levels) : QValid(last.levels[i]))
              => last.out = "rows"
        /\ last.out = "rows" =>
              /\ Len(last.rows) = Len(last.levels)
              /\ Len(last.calls) = 3 * Len(last.levels)
              /\ \A i \in 1..Len(last.levels) :
                    /\ last.rows[i].label = Label(last.levels[i])
                    /\ last.rows[i].historical
                          = FAbs(Num(Percentile(self.returns, last.levels[i])))
                    /\ last.calls[3 * i - 2] = <<"parametric", last.levels[i]>>
                    /\ last.calls[3 * i - 1] = <<"historical", last.levels[i]>>
                    /\ last.calls[3 * i] = <<"monte_carlo", last.levels[i]>>

C3_Witness ==
    /\ last.op = "summary" /\ last.out = "rows"
    /\ Len(last.levels) = 2 /\ last.levels[1] = last.levels[2]
    /\ Len(last.rows) = 2

\* C4 as stated: on the example series var_historical(0.1) is the absolute
\* value of the 10th percentile under linear interpolation and is within
\* 0.001 of 0.0279.
C4_Original ==
    (self # NoSelf /\ phase = "ready" /\ self.returns = ExampleReturns
     /\ last.op = "historical" /\ last.cl = 10 * LevelRes)
    => /\ last.out = "value" /\ IsNum(last.val)
       /\ Abs(10 * last.val.v - 279 * QDen) < 10 * QDen

\* C4 as amended: on the example series var_historical(0.1) is 0.021, the
\* absolute value of -0.03 + 0.9 * (-0.02 - (-0.03)), the 10th percentile
\* under linear interpolation.
C4_ExampleValue ==
    (self # NoSelf /\ phase = "ready" /\ self.returns = ExampleReturns
     /\ last.op = "historical" /\ last.cl = 10 * LevelRes)
    => /\ last.out = "value" /\ IsNum(last.val)
       /\ last.val.v = 21 * QDen

C4_Witness ==
    /\ phase = "ready" /\ self.returns = ExampleReturns
    /\ last.op = "historical" /\ last.cl = 10 * LevelRes /\ last.out = "value"

\* C5: var_historical gives the same outcome for the same level on every
\* call, whatever was sampled in between, and the 'Historical VaR' of a
\* summary row is what a direct call at the row's level gives.
C5_HistoricalDeterministic ==
    firstHist # <<>> =>
        /\ (last.op = "historical" /\ last.cl = firstHist[1].cl) =>
              /\ last.out = firstHist[1].out
              /\ last.val = firstHist[1].val
              /\ last.err = firstHist[1].err
        /\ (last.op = "summary" /\ last.out = "rows") =>
              \A i \in 1..Len(last.rows) :
                 last.levels[i] = firstHist[1].cl =>
                    /\ firstHist[1].out = "value"
                    /\ last.rows[i].historical = firstHist[1].val

C5_Witness ==
    /\ firstHist # <<>> /\ firstHist[1].at < drawn
    /\ last.op = "historical" /\ last.cl = firstHist[1].cl
    /\ last.out = "value"

\* C6: once constructed, the attributes of the instance (data and returns
\* among them) are what the constructor left, after any calls, failed ones
\* included: no method stores anything on the instance.
C6_InstanceUnchanged ==
    phase = "ready" =>
        /\ self = built
        /\ self.data = asset
        /\ self.returns = CalculateReturns(asset)

C6_Witness ==
    /\ phase = "ready" /\ last.op = "monte_carlo" /\ last.out = "error"
    /\ drawn > 0 /\ firstHist # <<>>

\* C7: a level outside the open interval (0, 1), or simulations <= 0, is
\* rejected with an error before any statistic is computed or any sample is
\* drawn, and gives no number.
C7_ValidatedFirst ==
    (/\ last.op \in Methods
     /\ \/ last.cl <= 0
        \/ last.cl >= QDen
        \/ last.op = "monte_carlo" /\ last.sims <= 0)
    => (last.out = "error" /\ ~last.stats /\ last.samples = 0)

\* C8: of n >= 2 prices come n - 1 returns, the i-th the change from price i
\* to price i + 1 relative to price i, to the resolution of a return: exact
\* whenever the quotient is representable.
C8_ReturnsArePctChange ==
    phase = "ready" =>
        /\ Len(self.returns) = Len(self.data) - 1
        /\ \A i \in 1..Len(self.returns) :
              2 * Abs(self.returns[i] * self.data[i]
                      - (self.data[i + 1] - self.data[i]) * RetScale)
                 <= self.data[i]

C8_Witness ==
    /\ phase = "ready" /\ Len(self.data) = 3
    /\ self.data[1] < self.data[2] /\ self.data[3] < self.data[2]
    /\ self.returns[1] > 0 /\ self.returns[2] < 0

\* C9: when a level of get_var_summary is out of range, the error of the
\* first method that fails reaches the caller: that call is the last one made
\* (no retry, no other method tried), no row is returned, and the instance
\* still takes calls.
C9_SummaryErrorPropagates ==
    (last.op = "summary" /\ \E i \in 1..Len(last.levels) : ~QValid(last.levels[i]))
    => LET k == CHOOSE i \in 1..Len(last.levels) :
                   /\ ~QValid(last.levels[i])
                   /\ \A j \in 1..(i - 1) : QValid(last.levels[j])
       IN  /\ last.out = "error"
           /\ last.err = "percentile_range"
           /\ last.rows = <<>>
           /\ Len(last.calls) = 3 * (k - 1) + 1
           /\ last.calls[Len(last.calls)] = <<"parametric", last.levels[k]>>
           /\ phase = "ready" /\ self = built
           /\ ENABLED (\E m \in LevelSet : Historical(m))

C9_Witness ==
    /\ last.op = "summary" /\ last.out = "error"
    /\ Len(last.levels) = 2 /\ QValid(last.levels[1])
    /\ Len(last.calls) = 4

\* C10: for levels a <= b strictly between 0 and 1 with a non-positive
\* percentile of the returns at b, var_historical(a) >= var_historical(b); so
\* the historical column of the default summary decreases from 1% to 5% to
\* 10% when the 10th percentile is non-positive.
C10_HistoricalMonotone ==
    /\ (/\ firstHist # <<>> /\ last.op = "historical"
        /\ 0 < firstHist[1].cl /\ firstHist[1].cl < QDen
        /\ 0 < last.cl /\ last.cl < QDen)
       => LET lo == IF firstHist[1].cl <= last.cl THEN firstHist[1] ELSE last
              hi == IF firstHist[1].cl <= last.cl THEN last ELSE firstHist[1]
          IN  Percentile(self.returns, hi.cl) <= 0
                 => /\ lo.out = "value" /\ hi.out = "value"
                    /\ IsNum(lo.val) /\ IsNum(hi.val)
                    /\ lo.val.v >= hi.val.v
    /\ (/\ last.op = "summary" /\ last.levels = DefaultLevels
        /\ Percentile(self.returns, DefaultLevels[3]) <= 0)
       => /\ last.out = "rows"
          /\ last.rows[1].historical.v >= last.rows[2].historical.v
          /\ last.rows[2].historical.v >= last.rows[3].historical.v

C10_Witness ==
    /\ firstHist # <<>> /\ last.op = "historical"
    /\ firstHist[1].cl = 10 * LevelRes /\ last.cl = LevelRes
    /\ Percentile(self.returns, 10 * LevelRes) < 0
    /\ last.val.v > firstHist[1].val.v

====
